---------------------------- MODULE Spec2Model ----------------------------
(***************************************************************************)
(* State-machine model of the devtales backend:                            *)
(*   - the OTP mail server            (src/mail-server.js)                 *)
(*   - the story / user API server    (src/unnamed/part_000)               *)
(*   - the legacy story list router   (src/routes/stories.js)              *)
(*   - the progress router            (src/unnamed/part_001)               *)
(* Every request handler is cut at its await points: one action per        *)
(* segment that runs without yielding to the event loop.                   *)
(***************************************************************************)
EXTENDS Integers, Sequences, FiniteSets, TLC

(***************************************************************************)
(* State                                                                   *)
(***************************************************************************)
VARIABLES
    otpStore,   \* Map email -> {otp, expires}
    now,        \* Date.now() of the mail server, in ms
    otpOps,     \* number of OTP requests handled (bounded)
    otpPending, \* sendMail calls handed to the relay whose callback has not run yet
    otpResp,    \* the response sent by the last step of the mail server, if it sent one
    otpLatest,  \* history: email -> the most recent send-otp (code, time, whether the mail
                \* went out) and the outcomes of the verifies since
    otpUsed     \* history: emails whose latest code was consumed by a successful verify

otpVars == <<otpStore, now, otpOps, otpPending, otpResp, otpLatest, otpUsed>>

VARIABLES
    progress,   \* the Progress collection, in insertion order; the index is the _id
    preqs,      \* in-flight POST /progress requests, per slot
    pstarted,   \* number of requests started (bounded)
    presp,      \* the last response of the progress router
    plast       \* history: pair -> value of the report whose save completed last

progVars == <<progress, preqs, pstarted, presp, plast>>

VARIABLES
    clerk,      \* the identity provider: identity-id -> profile
    users,      \* the User collection: _id -> document
    stories,    \* the Story collection: _id -> document
    reqs,       \* in-flight requests, per slot
    nextId,     \* the next fresh ObjectId
    started,    \* number of requests started (bounded)
    clock,      \* Date.now() of the API server
    resp        \* the last response of the API server

appVars == <<clerk, users, stories, reqs, nextId, started, clock, resp>>

vars == <<otpVars, progVars, appVars>>

(***************************************************************************)
(* Generic helpers                                                         *)
(***************************************************************************)
Range(s) == {s[i] : i \in 1..Len(s)}

\* Map.delete(k) / removal of a key from a finite function
DropKey(f, k) == [x \in (DOMAIN f) \ {k} |-> f[x]]

\* Map.set(k, v)
PutKey(f, k, v) == [x \in (DOMAIN f) \cup {k} |-> IF x = k THEN v ELSE f[x]]

(***************************************************************************)
(* ----------------------------- OTP server ------------------------------ *)
(***************************************************************************)
\* bounds of the OTP model
MaxTicks == 5
MaxOtpOps == 4

\* clock granularity: the expiry window is TicksPerTtl clock steps long
TicksPerTtl == 3

\* 5 * 60 * 1000 ms (mail-server.js:26); the clock advances in steps of TickMs
OtpTtlMs == 5 * 60 * 1000
TickMs == OtpTtlMs \div TicksPerTtl

\* generateOtp: Math.floor(100000 + Math.random() * 900000).toString()
OtpLow == 100000
OtpSpan == 900000
OtpNumbers == {OtpLow, OtpLow + OtpSpan - 1}
generateOtp == {[t |-> "string", v |-> n] : n \in OtpNumbers}

Emails == {"a@x", "b@x"}

\* req.body.otp: a JSON string or a JSON number (=== compares type and value)
SubmittedOtps == {[t |-> ty, v |-> n] : ty \in {"string", "number"}, n \in OtpNumbers}


NoResp == [op |-> "none"]

InitOtp ==
    /\ otpStore = << >>
    /\ now = 0
    /\ otpOps = 0
    /\ otpPending = {}
    /\ otpResp = NoResp
    /\ otpLatest = << >>
    /\ otpUsed = {}

\* (mutant of OtpExpired: the instant of expiry is already rejected)
OtpExpiredAtBoundary(stored, t) == t >= stored.expires

\* Date.now() > stored.expires
OtpExpired(stored, t) == t > stored.expires

\* outcome of POST /verify-otp against the store
VerifyOutcome(store, email, otp, t) ==
    IF email \notin DOMAIN store THEN "notfound"
    ELSE IF OtpExpired(store[email], t) THEN "expired"
    ELSE IF store[email].otp = otp THEN "success"
    ELSE "invalid"

\* (mutant of StoreAfterVerify: a wrong code also deletes the entry)
StoreAfterVerifyAnyFailure(store, email, outcome) ==
    IF outcome \in {"expired", "success", "invalid"} THEN DropKey(store, email) ELSE store

\* the store after POST /verify-otp
StoreAfterVerify(store, email, outcome) ==
    IF outcome \in {"expired", "success"} THEN DropKey(store, email) ELSE store

\* otpStore.set(email, {otp, expires})
StoreAfterSend(store, email, otp, t) ==
    PutKey(store, email, [otp |-> otp, expires |-> t + OtpTtlMs])

\* POST /send-otp up to transporter.sendMail(..): the entry is stored and the mail
\* is handed to the relay; the response waits for the relay's callback
SendOtp(email, otp) ==
    /\ otpOps < MaxOtpOps
    /\ otpOps' = otpOps + 1
    /\ otpStore' = StoreAfterSend(otpStore, email, otp, now)
    /\ otpPending' = otpPending \cup {[n |-> otpOps + 1, email |-> email, otp |-> otp]}
    /\ otpResp' = NoResp
    /\ otpLatest' = PutKey(otpLatest, email,
                           [n |-> otpOps + 1, otp |-> otp, at |-> now, mail |-> "pending",
                            outs |-> {}])
    /\ otpUsed' = otpUsed \ {email}
    /\ UNCHANGED now
    /\ UNCHANGED <<progVars, appVars>>

\* the callback of transporter.sendMail: it only chooses the response
SendMailCallback(p, mailOk) ==
    /\ p \in otpPending
    /\ otpPending' = otpPending \ {p}
    /\ otpResp' = [op |-> "send", email |-> p.email, n |-> p.n,
                   status |-> IF mailOk THEN 200 ELSE 500, success |-> mailOk]
    /\ otpLatest' = IF otpLatest[p.email].n = p.n
                    THEN [otpLatest EXCEPT ![p.email].mail = IF mailOk THEN "sent" ELSE "failed"]
                    ELSE otpLatest
    /\ UNCHANGED <<otpStore, now, otpOps, otpUsed>>
    /\ UNCHANGED <<progVars, appVars>>

\* what the history says a verify should answer
ExpectSuccess(email, otp) ==
    /\ email \in DOMAIN otpLatest
    /\ email \notin otpUsed
    /\ otp = otpLatest[email].otp
    /\ now <= otpLatest[email].at + OtpTtlMs

\* POST /verify-otp
VerifyOtp(email, otp) ==
    LET outcome == VerifyOutcome(otpStore, email, otp, now) IN
    /\ otpOps < MaxOtpOps
    /\ otpOps' = otpOps + 1
    /\ otpStore' = StoreAfterVerify(otpStore, email, outcome)
    /\ otpResp' = [op |-> "verify", email |-> email, otp |-> otp,
                   status |-> IF outcome = "success" THEN 200 ELSE 400,
                   outcome |-> outcome,
                   expected |-> ExpectSuccess(email, otp),
                   consumed |-> email \in otpUsed,
                   at |-> now,
                   prior |-> IF email \in DOMAIN otpLatest THEN otpLatest[email].outs ELSE {}]
    /\ otpUsed' = IF outcome = "success" THEN otpUsed \cup {email} ELSE otpUsed
    /\ otpLatest' = IF email \in DOMAIN otpLatest
                    THEN [otpLatest EXCEPT ![email].outs = @ \cup {outcome}]
                    ELSE otpLatest
    /\ UNCHANGED <<now, otpPending>>
    /\ UNCHANGED <<progVars, appVars>>

\* time passes
Tick ==
    /\ now < MaxTicks * TickMs
    /\ now' = now + TickMs
    /\ UNCHANGED <<otpStore, otpOps, otpPending, otpResp, otpLatest, otpUsed>>
    /\ UNCHANGED <<progVars, appVars>>

NextOtp ==
    \/ \E e \in Emails, c \in generateOtp : SendOtp(e, c)
    \/ \E p \in otpPending, ok \in BOOLEAN : SendMailCallback(p, ok)
    \/ \E e \in Emails, c \in SubmittedOtps : VerifyOtp(e, c)
    \/ Tick


(***************************************************************************)
(* --------------------------- Progress router --------------------------- *)
(***************************************************************************)
\* bounds of the progress model
MaxProgReqs == 3
MaxProgInFlight == 2

ProgUsers == {"p1", "p2"}
ProgStories == {"s1", "s2"}
ProgValues == {"25%", "50%"}

\* models/Progress.js is not part of the sources; the data model states that the
\* (user, story) pair is "not enforced as a database constraint"
ProgressUniqueIndex == FALSE


PIdle == [pc |-> "idle", user |-> "", storyId |-> "", progress |-> "", existing |-> 0,
          loaded |-> ""]

InitProgress ==
    /\ progress = << >>
    /\ preqs = [r \in 1..MaxProgInFlight |-> PIdle]
    /\ pstarted = 0
    /\ presp = NoResp
    /\ plast = << >>

\* _ids of the entries of a pair
EntriesOf(coll, user, storyId) ==
    {i \in 1..Len(coll) : coll[i].userId = user /\ coll[i].storyId = storyId}

\* authMiddleware sets req.user; the body carries storyId and progress
ProgStart(r, user, storyId, value) ==
    /\ preqs[r].pc = "idle"
    /\ pstarted < MaxProgReqs
    /\ pstarted' = pstarted + 1
    /\ preqs' = [preqs EXCEPT ![r] = [pc |-> "findOne", user |-> user, storyId |-> storyId,
                                      progress |-> value, existing |-> 0, loaded |-> ""]]
    /\ presp' = NoResp
    /\ UNCHANGED <<progress, plast>>
    /\ UNCHANGED <<otpVars, appVars>>

\* await Progress.findOne({userId, storyId}): one of the matching entries, or null
ProgFindOne(r) ==
    /\ preqs[r].pc = "findOne"
    /\ LET found == EntriesOf(progress, preqs[r].user, preqs[r].storyId) IN
       \/ /\ found = {}
          /\ preqs' = [preqs EXCEPT ![r].pc = "save", ![r].existing = 0]
       \/ \E i \in found : preqs' = [preqs EXCEPT ![r].pc = "save", ![r].existing = i,
                                                   ![r].loaded = progress[i].progress]
    /\ UNCHANGED <<progress, pstarted, presp, plast>>
    /\ UNCHANGED <<otpVars, appVars>>

\* await existingProgress.save() / await newProgress.save(), then res.json.
\* save() of a loaded document sends the paths changed on the copy: `progress` when
\* the posted value differs from the one read (updatedAt, always sent, is not kept)
ProgSave(r) ==
    LET q == preqs[r]
        pair == <<q.user, q.storyId>>
        entry == [userId |-> q.user, storyId |-> q.storyId, progress |-> q.progress]
        clash == ProgressUniqueIndex /\ EntriesOf(progress, q.user, q.storyId) /= {}
    IN
    /\ q.pc = "save"
    /\ IF q.existing /= 0
       THEN /\ progress' = IF q.progress /= q.loaded
                            THEN [progress EXCEPT ![q.existing].progress = q.progress]
                            ELSE progress
            /\ presp' = [op |-> "progress", status |-> 200, created |-> FALSE, entry |-> entry]
            /\ plast' = PutKey(plast, pair, q.progress)
       ELSE IF clash
       THEN /\ presp' = [op |-> "progress", status |-> 500, created |-> FALSE, entry |-> entry]
            /\ UNCHANGED <<progress, plast>>
       ELSE /\ progress' = Append(progress, entry)
            /\ presp' = [op |-> "progress", status |-> 200, created |-> TRUE, entry |-> entry]
            /\ plast' = PutKey(plast, pair, q.progress)
    /\ preqs' = [preqs EXCEPT ![r] = PIdle]
    /\ UNCHANGED pstarted
    /\ UNCHANGED <<otpVars, appVars>>

NextProgress ==
    \/ \E r \in DOMAIN preqs, u \in ProgUsers, s \in ProgStories, v \in ProgValues :
            ProgStart(r, u, s, v)
    \/ \E r \in DOMAIN preqs : ProgFindOne(r)
    \/ \E r \in DOMAIN preqs : ProgSave(r)

(***************************************************************************)
(* --------------------------- Story / user API -------------------------- *)
(* Documents are written the way mongoose writes them: doc.save() sends    *)
(* only the changes made to the loaded copy.  An array push()/pull()       *)
(* becomes $push/$pull and increments __v; an array splice() becomes a     *)
(* $set of the whole array that is conditional on the __v that was read    *)
(* (VersionError otherwise); a save that matches no document fails.        *)
(***************************************************************************)
\* bounds of the API model
MaxReqs == 5
MaxSeqReqs == 4
MaxCrudReqs == 3
MaxCommentReqs == 4
MaxSyncReqs == 3
MaxListReqs == 4
MaxEditReqs == 4
MaxRaceReqs == 3
MaxProfileReqs == 3
MaxInFlight == 2
MaxClock == 2

Identities == {"u1", "u2"}

\* String(null): what a null operand contributes to a string concatenation
JsNull == "null"

\* JS truthiness of a string-or-null value ("" also stands for an absent field)
Truthy(s) == s /= "" /\ s /= JsNull

\* a || b
Or(a, b) == IF Truthy(a) THEN a ELSE b

\* a route parameter that does not cast to an ObjectId (findById throws CastError)
NotObjectId == 0

MediaKinds == {"image", "audio", "video"}


NoProfile == [id |-> "", username |-> JsNull, firstName |-> JsNull, lastName |-> JsNull,
              imageUrl |-> JsNull]
NoUser == [_id |-> 0, clerkId |-> "", username |-> "", imageUrl |-> JsNull, bio |-> ""]
NoStory == [_id |-> 0, authorId |-> 0, title |-> "", content |-> "", category |-> "",
            imageUrl |-> JsNull, audioUrl |-> JsNull, videoUrl |-> JsNull,
            likes |-> << >>, bookmarks |-> << >>, comments |-> << >>,
            createdAt |-> 0, v |-> 0]

Idle == [kind |-> "idle", pc |-> "idle", caller |-> "", sid |-> 0, cid |-> 0, target |-> "",
         title |-> "", content |-> "", category |-> "", files |-> {}, fname |-> "",
         username |-> "", bio |-> "",
         cu |-> NoProfile, user |-> NoUser, localId |-> 0, story |-> NoStory, note |-> << >>]

\* history kept with the responses: a pair of like requests of one caller on one
\* story, the second started right after the first answered, nothing else in flight
NoHist == [n |-> 0, caller |-> "", sid |-> 0, before |-> << >>, first |-> << >>]

NoAppResp == [kind |-> "none", caller |-> "", sid |-> 0, cid |-> 0, status |-> 0,
              story |-> NoStory, list |-> << >>, user |-> NoUser, note |-> << >>,
              hist |-> NoHist]

\* the provider's profiles at start-up
NamedProfiles ==
    [c \in Identities |->
        [id |-> c, username |-> IF c = "u1" THEN "alice" ELSE "bob",
         firstName |-> JsNull, lastName |-> JsNull, imageUrl |-> "clerk/" \o c]]

InitDb ==
    /\ users = << >>
    /\ stories = << >>
    /\ nextId = 1
    /\ started = 0
    /\ clock = 0
    /\ resp = NoAppResp

\* res.status(..).json(..) / send(): the request is over
Finish(r, status, story) ==
    /\ reqs' = [reqs EXCEPT ![r] = Idle]
    /\ resp' = [kind |-> reqs[r].kind, caller |-> reqs[r].caller, sid |-> reqs[r].sid,
                cid |-> reqs[r].cid, status |-> status, story |-> story, list |-> << >>,
                user |-> reqs[r].user, note |-> reqs[r].note, hist |-> resp.hist]

\* the history of like pairs when request q starts
HistOnStart(q) ==
    IF q.kind = "like" /\ q.sid \in DOMAIN stories /\ (\A r \in DOMAIN reqs : reqs[r].pc = "idle")
    THEN IF /\ resp.kind = "like" /\ resp.status = 200 /\ resp.hist.n = 1
            /\ resp.caller = q.caller /\ resp.sid = q.sid
         THEN [resp.hist EXCEPT !.n = 2, !.first = resp.story.likes]
         ELSE [n |-> 1, caller |-> q.caller, sid |-> q.sid,
               before |-> stories[q.sid].likes, first |-> << >>]
    ELSE NoHist

\* a request arrives with a verified session (ClerkExpressRequireAuth) and
\* syncUser issues Clerk.users.getUser; it is served in the lowest free slot
Start(r, q, limit) ==
    /\ reqs[r].pc = "idle"
    /\ \A r2 \in DOMAIN reqs : r2 < r => reqs[r2].pc /= "idle"
    /\ started < limit
    /\ started' = started + 1
    /\ reqs' = [reqs EXCEPT ![r] = q]
    /\ resp' = [NoAppResp EXCEPT !.hist = HistOnStart(q)]
    /\ UNCHANGED <<clerk, users, stories, nextId, clock>>
    /\ UNCHANGED <<otpVars, progVars>>

Req(kind, caller) == [Idle EXCEPT !.kind = kind, !.caller = caller, !.pc = "getUser"]

(***************************************************************************)
(* syncUser                                                                *)
(***************************************************************************)
\* `user_${clerkUser.id}`
Placeholder(id) == "user_" \o id

\* clerkUser.username || clerkUser.firstName + ' ' + clerkUser.lastName || fallback
\* ('+' binds tighter than '||'; a null name part concatenates as "null")
SyncedName(cu, fallback) ==
    Or(Or(cu.username, cu.firstName \o " " \o cu.lastName), fallback)

\* the unique indexes of userSchema (clerkId, username) reject the write
UserIndexClash(coll, doc) ==
    \E i \in DOMAIN coll :
        /\ i /= doc._id
        /\ (coll[i].clerkId = doc.clerkId \/ coll[i].username = doc.username)

\* the first segment of the route handler that follows syncUser
HandlerPc(kind) ==
    CASE kind = "create" -> "build"
      [] kind = "delUser" -> "findSelf"
      [] kind = "bookmarked" -> "findBookmarked"
      [] kind = "updUser" -> "updateUser"
      [] OTHER -> "findStory"

\* await global.Clerk.users.getUser(req.auth.userId): throws for an unknown identity
SyncGetUser(r) ==
    /\ reqs[r].pc = "getUser"
    /\ IF reqs[r].caller \in DOMAIN clerk
       THEN /\ reqs' = [reqs EXCEPT ![r].cu = clerk[reqs[r].caller], ![r].pc = "findUser"]
            /\ UNCHANGED resp
       ELSE Finish(r, 500, NoStory)
    /\ UNCHANGED <<clerk, users, stories, nextId, started, clock>>
    /\ UNCHANGED <<otpVars, progVars>>

\* await User.findOne({ clerkId: clerkUser.id })
SyncFindUser(r) ==
    /\ reqs[r].pc = "findUser"
    /\ LET found == {i \in DOMAIN users : users[i].clerkId = reqs[r].cu.id} IN
       reqs' = [reqs EXCEPT ![r].pc = "saveUser",
                            ![r].user = IF found = {} THEN NoUser
                                        ELSE users[CHOOSE i \in found : TRUE]]
    /\ UNCHANGED <<clerk, users, stories, nextId, started, clock, resp>>
    /\ UNCHANGED <<otpVars, progVars>>

\* user.save() of a loaded document sends only the paths changed on the copy
\* (updatedAt, always sent, is not kept)
ChangedPaths(stored, loaded, copy) ==
    [stored EXCEPT !.username = IF copy.username /= loaded.username THEN copy.username ELSE @,
                   !.imageUrl = IF copy.imageUrl /= loaded.imageUrl THEN copy.imageUrl ELSE @]

\* await user.save() of the new or the updated document, then next()
SyncSaveUser(r) ==
    LET q == reqs[r]
        creating == q.user = NoUser
        copy == IF creating
                THEN [_id |-> nextId, clerkId |-> q.cu.id,
                      username |-> SyncedName(q.cu, Placeholder(q.cu.id)),
                      imageUrl |-> q.cu.imageUrl, bio |-> ""]
                ELSE [q.user EXCEPT !.username = SyncedName(q.cu, q.user.username),
                                    !.imageUrl = Or(q.cu.imageUrl, q.user.imageUrl)]
        gone == ~creating /\ copy._id \notin DOMAIN users
        doc == IF creating \/ gone THEN copy ELSE ChangedPaths(users[copy._id], q.user, copy)
    IN
    /\ q.pc = "saveUser"
    /\ nextId' = IF creating THEN nextId + 1 ELSE nextId
    /\ IF gone \/ UserIndexClash(users, doc)
       THEN /\ Finish(r, 500, NoStory)
            /\ UNCHANGED users
       ELSE /\ users' = PutKey(users, doc._id, doc)
            /\ reqs' = [reqs EXCEPT ![r].user = copy, ![r].pc = HandlerPc(q.kind)]
            /\ UNCHANGED resp
    /\ UNCHANGED <<clerk, stories, started, clock>>
    /\ UNCHANGED <<otpVars, progVars>>

(***************************************************************************)
(* PUT /api/users/:id                                                      *)
(***************************************************************************)
\* uploadToImageKit(req.file, 'profile-images')
ProfileImageUrl(fname) == "profile-images" \o "/" \o fname

\* updateData: the fields the $set carries (updatedAt is not kept)
UpdateData(q, doc) ==
    [doc EXCEPT !.username = IF Truthy(q.username) THEN q.username ELSE @,
                !.bio = IF Truthy(q.bio) THEN q.bio ELSE @,
                !.imageUrl = IF q.files /= {} THEN ProfileImageUrl(q.fname) ELSE @]

\* the checks, the upload and await User.findOneAndUpdate({ clerkId: id }, { $set })
UpdateUser(r) ==
    LET q == reqs[r]
        found == {i \in DOMAIN users : users[i].clerkId = q.target}
        doc == UpdateData(q, users[CHOOSE i \in found : TRUE])
        answer(status, user) ==
            /\ reqs' = [reqs EXCEPT ![r] = Idle]
            /\ resp' = [NoAppResp EXCEPT !.kind = q.kind, !.caller = q.caller,
                                         !.status = status, !.user = user]
    IN
    /\ q.pc = "updateUser"
    /\ \E uploadOk \in BOOLEAN :
        IF q.user.clerkId /= q.target THEN answer(403, NoUser) /\ UNCHANGED users
        ELSE IF q.files /= {} /\ ~uploadOk THEN answer(500, NoUser) /\ UNCHANGED users
        ELSE IF ~Truthy(q.username) /\ ~Truthy(q.bio) /\ q.files = {}
        THEN answer(400, NoUser) /\ UNCHANGED users
        ELSE IF found = {} THEN answer(404, NoUser) /\ UNCHANGED users
        ELSE IF UserIndexClash(users, doc) THEN answer(500, NoUser) /\ UNCHANGED users
        ELSE /\ users' = PutKey(users, doc._id, doc)
             /\ answer(200, doc)
    /\ UNCHANGED <<clerk, stories, nextId, started, clock>>
    /\ UNCHANGED <<otpVars, progVars>>

(***************************************************************************)
(* Story handlers                                                          *)
(***************************************************************************)
\* Array.prototype.indexOf: the first position of x, 0 when absent (JS: -1)
IndexOf(arr, x) ==
    IF x \in Range(arr) THEN CHOOSE i \in 1..Len(arr) : arr[i] = x /\ \A j \in 1..(i - 1) : arr[j] /= x
    ELSE 0

\* arr.splice(i, 1)
RemoveAt(arr, i) == [j \in 1..(Len(arr) - 1) |-> IF j < i THEN arr[j] ELSE arr[j + 1]]

\* $pull: every element satisfying the condition is removed, the rest keep their order
RECURSIVE Without(_, _)
Without(arr, drop) ==
    IF arr = << >> THEN << >>
    ELSE IF Head(arr) \in drop THEN Without(Tail(arr), drop)
    ELSE <<Head(arr)>> \o Without(Tail(arr), drop)

\* uploadToImageKit(file, folder) resolves to result.url
MediaFolder(kind) ==
    CASE kind = "image" -> "story-images"
      [] kind = "audio" -> "story-audio"
      [] kind = "video" -> "story-videos"
UploadedUrl(kind, fname) == MediaFolder(kind) \o "/" \o fname

\* (mutant of MediaUrl: a kind without a new file loses its URL)
MediaUrlReset(q, kind, prior) == IF kind \in q.files THEN UploadedUrl(kind, q.fname) ELSE JsNull

\* the URL a handler ends up with for one media kind
MediaUrl(q, kind, prior) == IF kind \in q.files THEN UploadedUrl(kind, q.fname) ELSE prior

\* (mutant of MissingRequired: the category is not checked)
MissingRequiredNoCategory(q) == ~Truthy(q.title) \/ ~Truthy(q.content)

\* !title || !content || !category
MissingRequired(q) == ~Truthy(q.title) \/ ~Truthy(q.content) \/ ~Truthy(q.category)

\* new Story({...}) of POST /api/stories
NewStory(q, id, t) ==
    [_id |-> id, authorId |-> q.user._id,
     title |-> q.title, content |-> q.content, category |-> q.category,
     imageUrl |-> MediaUrl(q, "image", JsNull),
     audioUrl |-> MediaUrl(q, "audio", JsNull),
     videoUrl |-> MediaUrl(q, "video", JsNull),
     likes |-> << >>, bookmarks |-> << >>, comments |-> << >>,
     createdAt |-> t, v |-> 0]

\* POST /api/stories up to await newStory.save(): the checks, the uploads and
\* new Story({...}), whose createdAt default reads the clock at construction
CreateBuild(r) ==
    LET q == reqs[r] IN
    /\ q.pc = "build"
    /\ \E uploadsOk \in BOOLEAN :
        IF MissingRequired(q) THEN Finish(r, 400, NoStory)
        ELSE IF q.files /= {} /\ ~uploadsOk THEN Finish(r, 500, NoStory)
        ELSE /\ reqs' = [reqs EXCEPT ![r].pc = "insert", ![r].story = NewStory(q, 0, clock)]
             /\ UNCHANGED resp
    /\ UNCHANGED <<clerk, users, stories, nextId, started, clock>>
    /\ UNCHANGED <<otpVars, progVars>>

\* the insert of newStory.save() arrives (_ids are numbered in insertion order)
CreateInsert(r) ==
    LET q == reqs[r]
        doc == [q.story EXCEPT !._id = nextId]
    IN
    /\ q.pc = "insert"
    /\ stories' = PutKey(stories, nextId, doc)
    /\ nextId' = nextId + 1
    /\ reqs' = [reqs EXCEPT ![r].pc = "reread", ![r].story = doc]
    /\ UNCHANGED <<clerk, users, started, clock, resp>>
    /\ UNCHANGED <<otpVars, progVars>>

\* story.comments.id(commentId): the comment with that _id, or null
CommentById(story, cid) ==
    LET hits == {i \in 1..Len(story.comments) : story.comments[i]._id = cid} IN
    IF hits = {} THEN 0 ELSE CHOOSE i \in hits : \A j \in hits : i <= j

\* (mutant of FindStatus: the author check of PUT and DELETE is missing)
FindStatusNoOwnerCheck(q, coll) ==
    IF q.kind = "comment" /\ ~Truthy(q.content) THEN 400
    ELSE IF q.sid = NotObjectId THEN 500
    ELSE IF q.sid \notin DOMAIN coll THEN 404
    ELSE IF q.kind = "delComment" /\ CommentById(coll[q.sid], q.cid) = 0 THEN 404
    ELSE IF q.kind = "delComment"
            /\ coll[q.sid].comments[CommentById(coll[q.sid], q.cid)].userId /= q.user._id THEN 403
    ELSE 0

\* the answer of the checks that follow await Story.findById(id); 0 = go on
FindStatus(q, coll) ==
    IF q.kind = "comment" /\ ~Truthy(q.content) THEN 400
    ELSE IF q.sid = NotObjectId THEN 500
    ELSE IF q.sid \notin DOMAIN coll THEN 404
    ELSE IF q.kind \in {"update", "delStory"} /\ coll[q.sid].authorId /= q.user._id THEN 403
    ELSE IF q.kind = "delComment" /\ CommentById(coll[q.sid], q.cid) = 0 THEN 404
    ELSE IF q.kind = "delComment"
            /\ coll[q.sid].comments[CommentById(coll[q.sid], q.cid)].userId /= q.user._id THEN 403
    ELSE 0

\* await Story.findById(id) and the checks on the loaded story
FindStory(r) ==
    LET q == reqs[r]
        status == FindStatus(q, stories)
    IN
    /\ q.pc = "findStory"
    /\ IF status /= 0
       THEN Finish(r, status, NoStory)
       ELSE /\ reqs' = [reqs EXCEPT ![r].story = stories[q.sid],
                                    ![r].pc = IF q.kind = "delStory" THEN "deleteStory"
                                              ELSE "saveStory"]
            /\ UNCHANGED resp
    /\ UNCHANGED <<clerk, users, stories, nextId, started, clock>>
    /\ UNCHANGED <<otpVars, progVars>>

\* the change doc.save() sends for the request, computed on the loaded copy
\*   op "push":   $push to path, $inc __v
\*   op "setArr": $set of path to the spliced array, where __v is the loaded one, $inc __v
\*   op "pull":   $pull of the comments with the _id, $inc __v
\*   op "set":    $set of the scalar paths
ToggleDelta(path, loaded, c) ==
    IF IndexOf(loaded[path], c) > 0
    THEN [op |-> "setArr", path |-> path, val |-> RemoveAt(loaded[path], IndexOf(loaded[path], c))]
    ELSE [op |-> "push", path |-> path, val |-> c]

SaveDelta(q, id) ==
    CASE q.kind = "like" -> ToggleDelta("likes", q.story, q.caller)
      [] q.kind = "bookmark" -> ToggleDelta("bookmarks", q.story, q.caller)
      [] q.kind = "comment" ->
            [op |-> "push", path |-> "comments",
             val |-> [_id |-> id, userId |-> q.user._id, content |-> q.content]]
      [] q.kind = "delComment" -> [op |-> "pull", path |-> "comments", val |-> q.cid]
      [] q.kind = "update" ->
            [op |-> "set", path |-> "",
             val |-> [title |-> Or(q.title, q.story.title),
                      content |-> Or(q.content, q.story.content),
                      category |-> Or(q.category, q.story.category),
                      imageUrl |-> MediaUrl(q, "image", q.story.imageUrl),
                      audioUrl |-> MediaUrl(q, "audio", q.story.audioUrl),
                      videoUrl |-> MediaUrl(q, "video", q.story.videoUrl)]]

\* (mutant of DeltaMatches: the spliced array is written whatever the stored __v)
DeltaMatchesAnyVersion(d, loaded, coll) == loaded._id \in DOMAIN coll

\* does the update match a document?
DeltaMatches(d, loaded, coll) ==
    /\ loaded._id \in DOMAIN coll
    /\ d.op = "setArr" => coll[loaded._id].v = loaded.v

\* the stored document after the update
ApplyDelta(d, loaded, doc) ==
    CASE d.op = "push" ->
            [doc EXCEPT ![d.path] = Append(@, d.val), !.v = @ + 1]
      [] d.op = "setArr" ->
            [doc EXCEPT ![d.path] = d.val, !.v = @ + 1]
      [] d.op = "pull" ->
            [doc EXCEPT !.comments = Without(@, {c \in Range(@) : c._id = d.val}), !.v = @ + 1]
      [] d.op = "set" ->
            [doc EXCEPT !.title = IF d.val.title /= loaded.title THEN d.val.title ELSE @,
                        !.content = IF d.val.content /= loaded.content THEN d.val.content ELSE @,
                        !.category = IF d.val.category /= loaded.category THEN d.val.category ELSE @,
                        !.imageUrl = IF d.val.imageUrl /= loaded.imageUrl THEN d.val.imageUrl ELSE @,
                        !.audioUrl = IF d.val.audioUrl /= loaded.audioUrl THEN d.val.audioUrl ELSE @,
                        !.videoUrl = IF d.val.videoUrl /= loaded.videoUrl THEN d.val.videoUrl ELSE @]

\* the local changes, the uploads of PUT, and await story.save()
SaveStory(r) ==
    LET q == reqs[r]
        d == SaveDelta(q, nextId)
    IN
    /\ q.pc = "saveStory"
    /\ nextId' = IF q.kind = "comment" THEN nextId + 1 ELSE nextId
    /\ \E uploadsOk \in BOOLEAN :
        IF (q.kind = "update" /\ q.files /= {} /\ ~uploadsOk) \/ ~DeltaMatches(d, q.story, stories)
        THEN /\ Finish(r, 500, NoStory)
             /\ UNCHANGED stories
        ELSE /\ stories' = [stories EXCEPT ![q.sid] = ApplyDelta(d, q.story, @)]
             /\ reqs' = [reqs EXCEPT ![r].pc = "reread"]
             /\ UNCHANGED resp
    /\ UNCHANGED <<clerk, users, started, clock>>
    /\ UNCHANGED <<otpVars, progVars>>

\* await Story.findById(story._id).populate(..) and the response
RereadStatus(kind) == IF kind \in {"create", "comment"} THEN 201 ELSE 200
Reread(r) ==
    LET q == reqs[r] IN
    /\ q.pc = "reread"
    /\ IF q.story._id \in DOMAIN stories
       THEN Finish(r, RereadStatus(q.kind), stories[q.story._id])
       ELSE Finish(r, 500, NoStory)
    /\ UNCHANGED <<clerk, users, stories, nextId, started, clock>>
    /\ UNCHANGED <<otpVars, progVars>>

\* await Story.findByIdAndDelete(id)
DeleteStory(r) ==
    /\ reqs[r].pc = "deleteStory"
    /\ stories' = DropKey(stories, reqs[r].sid)
    /\ Finish(r, 204, NoStory)
    /\ UNCHANGED <<clerk, users, nextId, started, clock>>
    /\ UNCHANGED <<otpVars, progVars>>

(***************************************************************************)
(* DELETE /api/users/:clerkId                                              *)
(***************************************************************************)
\* the check of the route parameter and await User.findOne({ clerkId })
DelUserFind(r) ==
    LET q == reqs[r]
        found == {i \in DOMAIN users : users[i].clerkId = q.target}
    IN
    /\ q.pc = "findSelf"
    /\ IF q.user.clerkId /= q.target THEN Finish(r, 403, NoStory)
       ELSE IF found = {} THEN Finish(r, 404, NoStory)
       ELSE /\ reqs' = [reqs EXCEPT ![r].pc = "deleteMany",
                                    ![r].localId = CHOOSE i \in found : TRUE]
            /\ UNCHANGED resp
    /\ UNCHANGED <<clerk, users, stories, nextId, started, clock>>
    /\ UNCHANGED <<otpVars, progVars>>

\* await Story.deleteMany({ authorId: user._id })
DeleteManyStories(coll, authorId) ==
    [i \in {j \in DOMAIN coll : coll[j].authorId /= authorId} |-> coll[i]]

DelUserStories(r) ==
    /\ reqs[r].pc = "deleteMany"
    /\ stories' = DeleteManyStories(stories, reqs[r].localId)
    /\ reqs' = [reqs EXCEPT ![r].pc = "updateMany",
                            ![r].note = <<Cardinality(DOMAIN stories) - Cardinality(DOMAIN stories')>>]
    /\ UNCHANGED <<clerk, users, nextId, started, clock, resp>>
    /\ UNCHANGED <<otpVars, progVars>>

\* (mutant of PullUser: the comments are left in place)
PullUserKeepComments(doc, clerkId, localId) ==
    [doc EXCEPT !.likes = Without(@, {clerkId}),
                !.bookmarks = Without(@, {clerkId})]

\* await Story.updateMany({$or: [...]}, {$pull: {likes, bookmarks, comments: {userId}}})
PullUser(doc, clerkId, localId) ==
    [doc EXCEPT !.likes = Without(@, {clerkId}),
                !.bookmarks = Without(@, {clerkId}),
                !.comments = Without(@, {c \in Range(@) : c.userId = localId})]

PullUserFromAll(coll, clerkId, localId) ==
    [i \in DOMAIN coll |-> PullUser(coll[i], clerkId, localId)]

DelUserPull(r) ==
    /\ reqs[r].pc = "updateMany"
    /\ stories' = PullUserFromAll(stories, reqs[r].target, reqs[r].localId)
    /\ reqs' = [reqs EXCEPT ![r].pc = "deleteUser",
                            ![r].note = @ \o <<Cardinality({i \in DOMAIN stories :
                                                              stories'[i] /= stories[i]})>>]
    /\ UNCHANGED <<clerk, users, nextId, started, clock, resp>>
    /\ UNCHANGED <<otpVars, progVars>>

\* await User.findOneAndDelete({ clerkId })
DelUserDoc(r) ==
    /\ reqs[r].pc = "deleteUser"
    /\ users' = [i \in {j \in DOMAIN users : users[j].clerkId /= reqs[r].target} |-> users[i]]
    /\ reqs' = [reqs EXCEPT ![r].pc = "clerkDelete"]
    /\ UNCHANGED <<clerk, stories, nextId, started, clock, resp>>
    /\ UNCHANGED <<otpVars, progVars>>

\* await global.Clerk.users.deleteUser(clerkId): the provider call may fail
DelUserClerk(r) ==
    /\ reqs[r].pc = "clerkDelete"
    /\ \E callOk \in BOOLEAN :
        IF callOk /\ reqs[r].target \in DOMAIN clerk
        THEN /\ clerk' = DropKey(clerk, reqs[r].target)
             /\ Finish(r, 204, NoStory)
        ELSE /\ UNCHANGED clerk
             /\ Finish(r, 500, NoStory)
    /\ UNCHANGED <<users, stories, nextId, started, clock>>
    /\ UNCHANGED <<otpVars, progVars>>

(***************************************************************************)
(* Story lists                                                             *)
(***************************************************************************)
\* all the documents of the collection in natural (insertion) order
NaturalOrder(coll) ==
    LET ids == DOMAIN coll
        rank(i) == Cardinality({j \in ids : j <= i})
    IN [k \in 1..Cardinality(ids) |-> coll[CHOOSE i \in ids : rank(i) = k]]

\* .sort({ createdAt: -1 }): stable insertion of each document by creation time
RECURSIVE SortByCreatedDesc(_)
SortByCreatedDesc(list) ==
    IF list = << >> THEN << >>
    ELSE LET rest == SortByCreatedDesc(Tail(list))
             x == Head(list)
             before == {i \in 1..Len(rest) : rest[i].createdAt > x.createdAt}
             n == Cardinality(before)
         IN SubSeq(rest, 1, n) \o <<x>> \o SubSeq(rest, n + 1, Len(rest))

ListResp(kind, list) == [NoAppResp EXCEPT !.kind = kind, !.status = 200, !.list = list]

\* GET /api/stories/bookmarked: Story.find({ bookmarks: user.clerkId }), newest first
BookmarkedBy(list, clerkId) ==
    Without(list, {d \in Range(list) : clerkId \notin Range(d.bookmarks)})

ListBookmarked(r) ==
    /\ reqs[r].pc = "findBookmarked"
    /\ reqs' = [reqs EXCEPT ![r] = Idle]
    /\ resp' = [ListResp("bookmarked",
                         SortByCreatedDesc(BookmarkedBy(NaturalOrder(stories), reqs[r].user.clerkId)))
                EXCEPT !.caller = reqs[r].caller, !.user = reqs[r].user]
    /\ UNCHANGED <<clerk, users, stories, nextId, started, clock>>
    /\ UNCHANGED <<otpVars, progVars>>

\* the identity's owner edits the profile at the provider
ProviderProfiles(c) ==
    {[id |-> c, username |-> u, firstName |-> f, lastName |-> l, imageUrl |-> "clerk/" \o c] :
        u \in {JsNull, "nick_" \o c}, f \in {JsNull, "Al"}, l \in {JsNull, "Li"}}

ProviderUpdate(c, profile) ==
    /\ c \in DOMAIN clerk
    /\ clerk[c] /= profile
    /\ clerk' = [clerk EXCEPT ![c] = profile]
    /\ UNCHANGED <<users, stories, reqs, nextId, started, clock, resp>>
    /\ UNCHANGED <<otpVars, progVars>>

\* GET /api/stories of the API server (public: no syncUser)
ListStories ==
    /\ started < MaxListReqs
    /\ started' = started + 1
    /\ resp' = ListResp("list", SortByCreatedDesc(NaturalOrder(stories)))
    /\ UNCHANGED <<clerk, users, stories, reqs, nextId, clock>>
    /\ UNCHANGED <<otpVars, progVars>>

\* GET / of routes/stories.js: Story.find() without a sort
RouterListStories ==
    /\ started < MaxListReqs
    /\ started' = started + 1
    /\ resp' = ListResp("routerList", NaturalOrder(stories))
    /\ UNCHANGED <<clerk, users, stories, reqs, nextId, clock>>
    /\ UNCHANGED <<otpVars, progVars>>

\* time passes on the API server
AppTick ==
    /\ clock < MaxClock
    /\ clock' = clock + 1
    /\ UNCHANGED <<clerk, users, stories, reqs, nextId, started, resp>>
    /\ UNCHANGED <<otpVars, progVars>>

(***************************************************************************)
(* Request inputs                                                          *)
(***************************************************************************)
\* route parameters: anything that is not an ObjectId, or an ObjectId handed out so far
IdParams == {NotObjectId} \cup (1..(nextId - 1))

CreateReq(c, title, content, category, files) ==
    [Req("create", c) EXCEPT !.title = title, !.content = content, !.category = category,
                             !.files = files, !.fname = "a"]
UpdateReq(c, sid, title, content, category, files) ==
    [Req("update", c) EXCEPT !.sid = sid, !.title = title, !.content = content,
                             !.category = category, !.files = files, !.fname = "b"]
ToggleReq(kind, c, sid) == [Req(kind, c) EXCEPT !.sid = sid]
CommentReq(c, sid, content) == [Req("comment", c) EXCEPT !.sid = sid, !.content = content]
DelCommentReq(c, sid, cid) == [Req("delComment", c) EXCEPT !.sid = sid, !.cid = cid]
DelStoryReq(c, sid) == [Req("delStory", c) EXCEPT !.sid = sid]
DelUserReq(c, target) == [Req("delUser", c) EXCEPT !.target = target]
UpdUserReq(c, target, username, bio, files) ==
    [Req("updUser", c) EXCEPT !.target = target, !.username = username, !.bio = bio,
                              !.files = files, !.fname = "p"]

\* requests that only pass through syncUser, and profile edits
ProfileRequests ==
    {Req("bookmarked", c) : c \in Identities}
    \cup {UpdUserReq(c, t, b[1], b[2], b[3]) :
            c \in Identities, t \in Identities,
            b \in {<<"bob", "", {}>>, <<"", "hi", {}>>, <<"", "", {"image"}>>, <<"", "", {}>>}}

PlainCreates == {CreateReq(c, "T", "C", "Myth", {}) : c \in Identities}

\* likes and bookmarks of existing stories, by anyone
ToggleRequests ==
    PlainCreates
    \cup {ToggleReq(k, c, s) : k \in {"like", "bookmark"}, c \in Identities, s \in DOMAIN stories}

\* engagement with existing stories, and profile deletion
EngageRequests ==
    PlainCreates
    \cup {ToggleReq(k, c, s) : k \in {"like", "bookmark"}, c \in Identities, s \in DOMAIN stories}
    \cup {CommentReq(c, s, "hi") : c \in Identities, s \in DOMAIN stories}
    \cup {DelUserReq(c, t) : c \in Identities, t \in Identities}

\* comments, with every kind of route parameter
CommentRequests ==
    PlainCreates
    \cup {CommentReq(c, s, t) : c \in Identities, s \in IdParams, t \in {"", "hi"}}
    \cup {DelCommentReq(c, s, i) : c \in Identities, s \in IdParams, i \in IdParams}

\* create / update / delete of stories, with every kind of body
CrudRequests ==
    {CreateReq(c, b[1], b[2], b[3], f) :
        c \in Identities,
        b \in {<<"T", "C", "Myth">>, <<"", "C", "Myth">>, <<"T", "", "Myth">>, <<"T", "C", "">>},
        f \in {{}, {"image"}, {"audio", "video"}}}
    \cup {UpdateReq(c, s, t, b, g, f) : c \in Identities, s \in IdParams, t \in {"", "T2"},
                                        b \in {"", "C2"}, g \in {""}, f \in {{}, {"image"}}}
    \cup {DelStoryReq(c, s) : c \in Identities, s \in IdParams}

\* the bodies of PUT: one field or one file supplied, the rest absent
EditBodies ==
    {<<"T2", "", "", {}>>, <<"", "C2", "", {}>>, <<"", "", "G2", {}>>, <<"", "", "", {"image"}>>}

\* edits of stories that have gathered likes and comments
EditRequests ==
    PlainCreates
    \cup {ToggleReq("like", c, s) : c \in Identities, s \in DOMAIN stories}
    \cup {CommentReq(c, s, "hi") : c \in Identities, s \in DOMAIN stories}
    \cup {UpdateReq(c, s, b[1], b[2], b[3], b[4]) : c \in Identities, s \in DOMAIN stories,
                                                    b \in EditBodies}
    \cup {DelStoryReq(c, s) : c \in Identities, s \in DOMAIN stories}

(***************************************************************************)
(* Specifications                                                          *)
(***************************************************************************)
\* the state after start-up, with room for `slots` API requests in flight
InitAll(slots) ==
    /\ InitOtp
    /\ InitProgress
    /\ InitDb
    /\ clerk = NamedProfiles
    /\ reqs = [r \in 1..slots |-> Idle]

\* concurrent likes and bookmarks
NextToggle ==
    \/ \E r \in DOMAIN reqs, q \in ToggleRequests : Start(r, q, MaxReqs)
    \/ \E r \in DOMAIN reqs : SyncGetUser(r)
    \/ \E r \in DOMAIN reqs : SyncFindUser(r)
    \/ \E r \in DOMAIN reqs : SyncSaveUser(r)
    \/ \E r \in DOMAIN reqs : CreateBuild(r)
    \/ \E r \in DOMAIN reqs : CreateInsert(r)
    \/ \E r \in DOMAIN reqs : FindStory(r)
    \/ \E r \in DOMAIN reqs : SaveStory(r)
    \/ \E r \in DOMAIN reqs : Reread(r)

Spec ==
    /\ InitAll(MaxInFlight)
    /\ [][NextToggle]_vars

\* one request at a time: engagement, comment and profile deletion
NextEngage ==
    \/ \E r \in DOMAIN reqs, q \in EngageRequests : Start(r, q, MaxSeqReqs)
    \/ \E r \in DOMAIN reqs : SyncGetUser(r)
    \/ \E r \in DOMAIN reqs : SyncFindUser(r)
    \/ \E r \in DOMAIN reqs : SyncSaveUser(r)
    \/ \E r \in DOMAIN reqs : CreateBuild(r)
    \/ \E r \in DOMAIN reqs : CreateInsert(r)
    \/ \E r \in DOMAIN reqs : FindStory(r)
    \/ \E r \in DOMAIN reqs : SaveStory(r)
    \/ \E r \in DOMAIN reqs : Reread(r)
    \/ \E r \in DOMAIN reqs : DelUserFind(r)
    \/ \E r \in DOMAIN reqs : DelUserStories(r)
    \/ \E r \in DOMAIN reqs : DelUserPull(r)
    \/ \E r \in DOMAIN reqs : DelUserDoc(r)
    \/ \E r \in DOMAIN reqs : DelUserClerk(r)

SpecSeq ==
    /\ InitAll(1)
    /\ [][NextEngage]_vars

\* one request at a time: comments and their deletion
NextComment ==
    \/ \E r \in DOMAIN reqs, q \in CommentRequests : Start(r, q, MaxCommentReqs)
    \/ \E r \in DOMAIN reqs : SyncGetUser(r)
    \/ \E r \in DOMAIN reqs : SyncFindUser(r)
    \/ \E r \in DOMAIN reqs : SyncSaveUser(r)
    \/ \E r \in DOMAIN reqs : CreateBuild(r)
    \/ \E r \in DOMAIN reqs : CreateInsert(r)
    \/ \E r \in DOMAIN reqs : FindStory(r)
    \/ \E r \in DOMAIN reqs : SaveStory(r)
    \/ \E r \in DOMAIN reqs : Reread(r)

SpecComment ==
    /\ InitAll(1)
    /\ [][NextComment]_vars

\* one request at a time: story create / update / delete and the two lists
NextCrud ==
    \/ \E r \in DOMAIN reqs, q \in CrudRequests : Start(r, q, MaxCrudReqs)
    \/ \E r \in DOMAIN reqs : SyncGetUser(r)
    \/ \E r \in DOMAIN reqs : SyncFindUser(r)
    \/ \E r \in DOMAIN reqs : SyncSaveUser(r)
    \/ \E r \in DOMAIN reqs : CreateBuild(r)
    \/ \E r \in DOMAIN reqs : CreateInsert(r)
    \/ \E r \in DOMAIN reqs : FindStory(r)
    \/ \E r \in DOMAIN reqs : SaveStory(r)
    \/ \E r \in DOMAIN reqs : Reread(r)
    \/ \E r \in DOMAIN reqs : DeleteStory(r)

SpecCrud ==
    /\ InitAll(1)
    /\ [][NextCrud]_vars

\* one request at a time: stories created over time, and the two lists
NextList ==
    \/ \E r \in DOMAIN reqs, q \in PlainCreates : Start(r, q, MaxListReqs)
    \/ \E r \in DOMAIN reqs : SyncGetUser(r)
    \/ \E r \in DOMAIN reqs : SyncFindUser(r)
    \/ \E r \in DOMAIN reqs : SyncSaveUser(r)
    \/ \E r \in DOMAIN reqs : CreateBuild(r)
    \/ \E r \in DOMAIN reqs : CreateInsert(r)
    \/ \E r \in DOMAIN reqs : Reread(r)
    \/ ListStories
    \/ RouterListStories
    \/ AppTick

SpecList ==
    /\ InitAll(1)
    /\ [][NextList]_vars

\* one request at a time: syncUser against a changing provider profile
NextSync ==
    \/ \E r \in DOMAIN reqs, c \in Identities : Start(r, Req("bookmarked", c), MaxSyncReqs)
    \/ \E r \in DOMAIN reqs : SyncGetUser(r)
    \/ \E r \in DOMAIN reqs : SyncFindUser(r)
    \/ \E r \in DOMAIN reqs : SyncSaveUser(r)
    \/ \E r \in DOMAIN reqs : ListBookmarked(r)
    \/ \E c \in Identities : \E p \in ProviderProfiles(c) : ProviderUpdate(c, p)

SpecSync ==
    /\ InitAll(1)
    /\ [][NextSync]_vars

\* story edits interleaved with likes, comments and deletions
NextEdit ==
    \/ \E r \in DOMAIN reqs, q \in EditRequests : Start(r, q, MaxEditReqs)
    \/ \E r \in DOMAIN reqs : SyncGetUser(r)
    \/ \E r \in DOMAIN reqs : SyncFindUser(r)
    \/ \E r \in DOMAIN reqs : SyncSaveUser(r)
    \/ \E r \in DOMAIN reqs : CreateBuild(r)
    \/ \E r \in DOMAIN reqs : CreateInsert(r)
    \/ \E r \in DOMAIN reqs : FindStory(r)
    \/ \E r \in DOMAIN reqs : SaveStory(r)
    \/ \E r \in DOMAIN reqs : Reread(r)
    \/ \E r \in DOMAIN reqs : DeleteStory(r)

SpecEdit ==
    /\ InitAll(MaxInFlight)
    /\ [][NextEdit]_vars

\* profile deletion interleaved with the other protected requests
NextRace ==
    \/ \E r \in DOMAIN reqs, q \in EngageRequests : Start(r, q, MaxRaceReqs)
    \/ \E r \in DOMAIN reqs : SyncGetUser(r)
    \/ \E r \in DOMAIN reqs : SyncFindUser(r)
    \/ \E r \in DOMAIN reqs : SyncSaveUser(r)
    \/ \E r \in DOMAIN reqs : CreateBuild(r)
    \/ \E r \in DOMAIN reqs : CreateInsert(r)
    \/ \E r \in DOMAIN reqs : FindStory(r)
    \/ \E r \in DOMAIN reqs : SaveStory(r)
    \/ \E r \in DOMAIN reqs : Reread(r)
    \/ \E r \in DOMAIN reqs : DelUserFind(r)
    \/ \E r \in DOMAIN reqs : DelUserStories(r)
    \/ \E r \in DOMAIN reqs : DelUserPull(r)
    \/ \E r \in DOMAIN reqs : DelUserDoc(r)
    \/ \E r \in DOMAIN reqs : DelUserClerk(r)

SpecRace ==
    /\ InitAll(MaxInFlight)
    /\ [][NextRace]_vars

\* profile edits interleaved with syncUser of other requests
NextProfile ==
    \/ \E r \in DOMAIN reqs, q \in ProfileRequests : Start(r, q, MaxProfileReqs)
    \/ \E r \in DOMAIN reqs : SyncGetUser(r)
    \/ \E r \in DOMAIN reqs : SyncFindUser(r)
    \/ \E r \in DOMAIN reqs : SyncSaveUser(r)
    \/ \E r \in DOMAIN reqs : ListBookmarked(r)
    \/ \E r \in DOMAIN reqs : UpdateUser(r)

SpecProfile ==
    /\ InitAll(MaxInFlight)
    /\ [][NextProfile]_vars

\* the mail server on its own
SpecOtp ==
    /\ InitAll(1)
    /\ [][NextOtp]_vars

\* the progress router on its own, up to MaxProgInFlight requests in flight
SpecProgress ==
    /\ InitAll(1)
    /\ [][NextProgress]_vars

(***************************************************************************)
(* ------------------------------- Claims -------------------------------- *)
(***************************************************************************)
(***************************************************************************)
(* C1: a verify-otp succeeds exactly when the submitted code is the code   *)
(* of the most recent send-otp for that email, that code has not been      *)
(* consumed by an earlier successful verify, and the clock is not past its *)
(* 5-minute expiry; a verify after a successful verify (no new send-otp in *)
(* between) answers "no OTP found".                                        *)
(***************************************************************************)
C1_VerifyIffLatestLive ==
    otpResp.op = "verify" =>
        /\ (otpResp.outcome = "success") <=> otpResp.expected
        /\ (otpResp.outcome = "success") <=> (otpResp.status = 200)
        /\ otpResp.consumed => otpResp.outcome = "notfound"

\* a verify succeeded with the second code sent to an email, at the very
\* instant of expiry, after the first code had been overwritten
C1_Witness ==
    /\ otpResp.op = "verify"
    /\ otpResp.outcome = "success"
    /\ otpOps >= 3
    /\ now = otpLatest[otpResp.email].at + OtpTtlMs

\* a second verify with the consumed code answered "no OTP found"
C1_WitnessSecondVerify ==
    /\ otpResp.op = "verify"
    /\ otpResp.consumed
    /\ otpResp.otp = otpLatest[otpResp.email].otp
    /\ otpResp.outcome = "notfound"

(***************************************************************************)
(* C2: when DELETE /api/users/:clerkId has answered 204 for user U, with   *)
(* no other request interleaved, no story authored by U's local id is      *)
(* left, no remaining story has U's identity-id among its likes or         *)
(* bookmarks or a comment of U's local id, and no User document of U       *)
(* exists.                                                                 *)
(***************************************************************************)
C2_DeleteLeavesNoReference ==
    (resp.kind = "delUser" /\ resp.status = 204) =>
        /\ \A i \in DOMAIN stories :
              /\ stories[i].authorId /= resp.user._id
              /\ resp.caller \notin Range(stories[i].likes)
              /\ resp.caller \notin Range(stories[i].bookmarks)
              /\ \A c \in Range(stories[i].comments) : c.userId /= resp.user._id
        /\ \A i \in DOMAIN users : users[i].clerkId /= resp.caller

\* a profile deletion answered 204 after it deleted a story of the user and
\* pulled the user's entries out of a story that remains
C2_Witness ==
    /\ resp.kind = "delUser"
    /\ resp.status = 204
    /\ resp.note = <<1, 1>>
    /\ stories /= << >>

(***************************************************************************)
(* C3: a step of PUT /api/stories/:id or DELETE /api/stories/:id changes   *)
(* or removes a story only if the caller's local user id is the story's    *)
(* authorId; for an existing story of another author the request answers   *)
(* 403 and the collection is unchanged.                                    *)
(***************************************************************************)
C3_OnlyAuthorChanges ==
    [][\A r \in DOMAIN reqs :
          (/\ reqs[r].kind \in {"update", "delStory"}
           /\ reqs[r].pc \in {"findStory", "saveStory", "deleteStory"}
           /\ reqs'[r] /= reqs[r])
          => /\ \A i \in DOMAIN stories :
                    (i \notin DOMAIN stories' \/ stories'[i] /= stories[i])
                    => stories[i].authorId = reqs[r].user._id
             /\ (/\ reqs[r].pc = "findStory"
                 /\ reqs[r].sid \in DOMAIN stories
                 /\ stories[reqs[r].sid].authorId /= reqs[r].user._id)
                => (reqs'[r].pc = "idle" /\ resp'.status = 403 /\ stories' = stories)
      ]_vars

\* an update of another author's story was refused
C3_Witness ==
    /\ resp.kind = "update"
    /\ resp.status = 403
    /\ resp.sid \in DOMAIN stories
    /\ stories[resp.sid].authorId /= resp.user._id

(***************************************************************************)
(* C4: in every reachable state, whatever the interleaving of like and     *)
(* bookmark toggles (two toggles of one identity on one story in flight    *)
(* included), no story's likes and no story's bookmarks holds the same     *)
(* identity-id twice.                                                      *)
(***************************************************************************)
NoDuplicates(arr) == \A a, b \in 1..Len(arr) : a /= b => arr[a] /= arr[b]

C4_NoDuplicateLikes ==
    \A i \in DOMAIN stories :
        NoDuplicates(stories[i].likes) /\ NoDuplicates(stories[i].bookmarks)

(***************************************************************************)
(* C5: two like requests of one caller on one story, the second started    *)
(* after the first answered and nothing else in between, leave every       *)
(* identity's membership in likes as it was before the first; the other    *)
(* identities' membership is the same in the first response too, and a     *)
(* caller who was absent is present in the first response and absent in    *)
(* the second.                                                             *)
(***************************************************************************)
C5_DoubleToggleRestores ==
    (resp.kind = "like" /\ resp.status = 200 /\ resp.hist.n = 2) =>
        LET h == resp.hist IN
        /\ Range(resp.story.likes) = Range(h.before)
        /\ Range(h.first) \ {h.caller} = Range(h.before) \ {h.caller}
        /\ h.caller \notin Range(h.before) =>
              (h.caller \in Range(h.first) /\ h.caller \notin Range(resp.story.likes))

(***************************************************************************)
(* C6: each route that serves the story list answers with all the stories  *)
(* ordered by creation time, newest first.                                 *)
(***************************************************************************)
C6_ListsNewestFirst ==
    [][(resp'.kind \in {"list", "routerList"} /\ resp' /= resp) =>
          /\ Range(resp'.list) = {stories[i] : i \in DOMAIN stories}
          /\ Len(resp'.list) = Cardinality(DOMAIN stories)
          /\ \A a, b \in 1..Len(resp'.list) :
                a < b => resp'.list[a].createdAt >= resp'.list[b].createdAt
      ]_vars

(***************************************************************************)
(* C7: delete-comment answers 404 when the story does not exist or has no  *)
(* comment with that id, 403 when the comment's userId is not the caller's *)
(* local user id, and leaves the comments unchanged in both cases;         *)
(* otherwise exactly that comment is removed and the others keep their     *)
(* order.                                                                  *)
(***************************************************************************)
C7_DeleteComment ==
    [][\A r \in DOMAIN reqs :
          (reqs[r].kind = "delComment" /\ reqs'[r] /= reqs[r])
          => LET q == reqs[r]
                 exists == q.sid \in DOMAIN stories
                 hits == IF exists
                         THEN {k \in 1..Len(stories[q.sid].comments) :
                                 stories[q.sid].comments[k]._id = q.cid}
                         ELSE {}
             IN
             /\ q.pc = "findStory" =>
                  /\ stories' = stories
                  /\ IF hits = {} THEN reqs'[r].pc = "idle" /\ resp'.status = 404
                     ELSE IF \E k \in hits : stories[q.sid].comments[k].userId /= q.user._id
                     THEN reqs'[r].pc = "idle" /\ resp'.status = 403
                     ELSE reqs'[r].pc = "saveStory"
             /\ q.pc = "saveStory" =>
                  /\ \E k \in hits : stories'[q.sid].comments = RemoveAt(stories[q.sid].comments, k)
                  /\ \A i \in DOMAIN stories : i /= q.sid => stories'[i] = stories[i]
      ]_vars

(***************************************************************************)
(* C8: when the provider profile has no username and no first and last     *)
(* name, syncUser gives a new local User the placeholder name              *)
(* user_<identity-id> and leaves the name of an existing local User as it  *)
(* is.                                                                     *)
(***************************************************************************)
C8_NamelessProfile ==
    [][\A r \in DOMAIN reqs :
          (/\ reqs[r].pc = "saveUser"
           /\ reqs'[r].pc \notin {"saveUser", "idle"}
           /\ reqs[r].cu.username = JsNull
           /\ reqs[r].cu.firstName = JsNull
           /\ reqs[r].cu.lastName = JsNull)
          => IF reqs[r].user = NoUser
             THEN reqs'[r].user.username = "user_" \o reqs[r].cu.id
             ELSE reqs'[r].user.username = reqs[r].user.username
      ]_vars

(***************************************************************************)
(* C9: POST /api/stories adds nothing to the story collection when title,  *)
(* content or category is missing (400) or when an upload fails (500);     *)
(* otherwise it adds exactly one story, owned by the caller, with empty    *)
(* likes, bookmarks and comments and a null URL for each media kind that   *)
(* was not supplied.                                                       *)
(***************************************************************************)
UrlOf(doc, kind) ==
    CASE kind = "image" -> doc.imageUrl
      [] kind = "audio" -> doc.audioUrl
      [] kind = "video" -> doc.videoUrl

C9_CreateAllOrNothing ==
    [][\A r \in DOMAIN reqs :
          (reqs[r].kind = "create" /\ reqs[r].pc \in {"build", "insert"} /\ reqs'[r] /= reqs[r])
          => LET q == reqs[r]
                 missing == q.title = "" \/ q.content = "" \/ q.category = ""
                 added == (DOMAIN stories') \ (DOMAIN stories)
             IN
             /\ \A i \in DOMAIN stories : i \in DOMAIN stories' /\ stories'[i] = stories[i]
             /\ q.pc = "build" =>
                  /\ added = {}
                  /\ IF missing THEN reqs'[r].pc = "idle" /\ resp'.status = 400
                     ELSE IF reqs'[r].pc = "idle" THEN resp'.status = 500 /\ q.files /= {}
                     ELSE reqs'[r].pc = "insert"
             /\ q.pc = "insert" =>
                  \E i \in added :
                        /\ added = {i}
                        /\ ~missing
                        /\ stories'[i].authorId = q.user._id
                        /\ q.user.clerkId = q.caller
                        /\ stories'[i].title = q.title
                        /\ stories'[i].content = q.content
                        /\ stories'[i].category = q.category
                        /\ stories'[i].likes = << >>
                        /\ stories'[i].bookmarks = << >>
                        /\ stories'[i].comments = << >>
                        /\ \A k \in MediaKinds :
                              (UrlOf(stories'[i], k) = JsNull) <=> (k \notin q.files)
      ]_vars

\* a story was created with audio and video but no image: 201, imageUrl null
C9_Witness ==
    /\ resp.kind = "create"
    /\ resp.status = 201
    /\ resp.story.imageUrl = JsNull
    /\ resp.story.audioUrl /= JsNull
    /\ resp.story.likes = << >>
    /\ resp.story.comments = << >>
    /\ resp.story._id \in DOMAIN stories

(***************************************************************************)
(* C10: after any interleaving of POST /progress requests the collection   *)
(* holds at most one entry per (user, story) pair, and once no request is  *)
(* in flight that entry carries the value of the report saved last.        *)
(***************************************************************************)
C10_OneEntryPerPair ==
    \A u \in ProgUsers, s \in ProgStories :
        /\ Cardinality(EntriesOf(progress, u, s)) <= 1
        /\ (\A r \in DOMAIN preqs : preqs[r].pc = "idle") =>
              \A i \in EntriesOf(progress, u, s) : progress[i].progress = plast[<<u, s>>]

(***************************************************************************)
(* C11: no step changes the authorId of a story that exists before and     *)
(* after it; the save of an owner's update changes no other story and, in  *)
(* the updated story, leaves title, content and category as stored when    *)
(* the request carries none (absent or empty), leaves each media URL as    *)
(* stored when no file of that kind is supplied, and leaves likes,         *)
(* bookmarks, comments and the creation time as stored.                    *)
(***************************************************************************)
C11_UpdateFrame ==
    [][/\ \A i \in (DOMAIN stories) \cap (DOMAIN stories') :
              stories'[i].authorId = stories[i].authorId
       /\ \A r \in DOMAIN reqs :
              (reqs[r].kind = "update" /\ reqs[r].pc = "saveStory" /\ reqs'[r] /= reqs[r])
              => LET q == reqs[r] IN
                 /\ DOMAIN stories' = DOMAIN stories
                 /\ \A i \in DOMAIN stories : i /= q.sid => stories'[i] = stories[i]
                 /\ q.sid \in DOMAIN stories =>
                      LET old == stories[q.sid]
                          new == stories'[q.sid]
                      IN
                      /\ new.likes = old.likes
                      /\ new.bookmarks = old.bookmarks
                      /\ new.comments = old.comments
                      /\ new.createdAt = old.createdAt
                      /\ q.title = "" => new.title = old.title
                      /\ q.content = "" => new.content = old.content
                      /\ q.category = "" => new.category = old.category
                      /\ \A k \in MediaKinds :
                            k \notin q.files => UrlOf(new, k) = UrlOf(old, k)
      ]_vars

\* an owner's update answered 200 for a story that has a like and a comment:
\* the title is the supplied one, content, category and image URL are kept
C11_Witness ==
    /\ resp.kind = "update"
    /\ resp.status = 200
    /\ resp.story.authorId = resp.user._id
    /\ resp.story.title = "T2"
    /\ resp.story.content = "C"
    /\ resp.story.category = "Myth"
    /\ resp.story.likes /= << >>
    /\ resp.story.comments /= << >>
    /\ resp.story = stories[resp.sid]

(***************************************************************************)
(* C12 as stated: a like whose copy of the story went stale because        *)
(* another identity's toggle was saved after the read, and whose own save  *)
(* succeeds, overwrites the stored likes with the list computed from that  *)
(* copy (the last write wins, the other toggle is dropped).                *)
(***************************************************************************)
Toggled(arr, c) == IF IndexOf(arr, c) > 0 THEN RemoveAt(arr, IndexOf(arr, c)) ELSE Append(arr, c)

C12_LastWriteWins ==
    [][\A r \in DOMAIN reqs :
          (/\ reqs[r].kind = "like" /\ reqs[r].pc = "saveStory" /\ reqs'[r].pc = "reread"
           /\ Range(stories[reqs[r].sid].likes) \ {reqs[r].caller}
                 /= Range(reqs[r].story.likes) \ {reqs[r].caller})
          => stories'[reqs[r].sid].likes = Toggled(reqs[r].story.likes, reqs[r].caller)
      ]_vars

(***************************************************************************)
(* C12 amended: the save of a like never drops another toggle.  A save     *)
(* that succeeds applies the caller's toggle (add or remove, as decided on *)
(* the copy read) to the likes stored at that moment, so every other       *)
(* identity's membership is as stored; a removal computed from a copy      *)
(* whose version is no longer the stored one answers 500 and writes        *)
(* nothing.                                                                *)
(***************************************************************************)
C12_ToggleAppliedToStored ==
    [][\A r \in DOMAIN reqs :
          (reqs[r].kind = "like" /\ reqs[r].pc = "saveStory" /\ reqs'[r] /= reqs[r])
          => LET q == reqs[r]
                 removing == q.caller \in Range(q.story.likes)
                 stale == q.sid \notin DOMAIN stories \/ stories[q.sid].v /= q.story.v
             IN
             /\ reqs'[r].pc = "reread" =>
                  /\ stories'[q.sid].likes =
                        IF removing
                        THEN RemoveAt(stories[q.sid].likes, IndexOf(stories[q.sid].likes, q.caller))
                        ELSE Append(stories[q.sid].likes, q.caller)
                  /\ Range(stories'[q.sid].likes) \ {q.caller}
                        = Range(stories[q.sid].likes) \ {q.caller}
                  /\ removing => q.caller \in Range(stories[q.sid].likes)
             /\ (removing /\ stale) =>
                  (reqs'[r].pc = "idle" /\ resp'.status = 500 /\ stories' = stories)
      ]_vars

\* two likes of different identities on one story, both read the empty list
\* before either saved, both saves succeeded: the stored list holds both
C12_Witness ==
    /\ DOMAIN reqs = {1, 2}
    /\ reqs[1].kind = "like" /\ reqs[2].kind = "like"
    /\ reqs[1].pc = "reread" /\ reqs[2].pc = "reread"
    /\ reqs[1].sid = reqs[2].sid
    /\ reqs[1].caller /= reqs[2].caller
    /\ reqs[1].story.likes = << >> /\ reqs[2].story.likes = << >>
    /\ Range(stories[reqs[1].sid].likes) = {reqs[1].caller, reqs[2].caller}

(***************************************************************************)
(* C13: the answer of a verify-otp follows from the most recent send-otp   *)
(* for the email and the verifies since.  After only wrong-code failures   *)
(* the entry is still the one stored by that send: inside the 5 minutes    *)
(* the right code succeeds and a wrong code fails as invalid, leaving the  *)
(* entry in place; past the 5 minutes any code fails as expired and the    *)
(* entry is deleted.  After an expired (or successful) verify, and when    *)
(* nothing was sent, every verify fails as "no OTP found".  None of this   *)
(* depends on whether the mail of the send went out: when the relay's      *)
(* callback answers the send (500 and success false when the mail failed)  *)
(* the entry of that send, if no later send or verify replaced or removed  *)
(* it, is still stored with its code and expiry.                           *)
(***************************************************************************)
C13_FailedVerifyLifecycle ==
    /\ otpResp.op = "verify" =>
          LET e == otpResp.email
              sent == e \in DOMAIN otpLatest
              live == sent /\ otpResp.prior \subseteq {"invalid"}
              inWindow == otpResp.at <= otpLatest[e].at + OtpTtlMs
              entry == [otp |-> otpLatest[e].otp, expires |-> otpLatest[e].at + OtpTtlMs]
          IN
          /\ ~live => otpResp.outcome = "notfound" /\ e \notin DOMAIN otpStore
          /\ (live /\ ~inWindow) => otpResp.outcome = "expired" /\ e \notin DOMAIN otpStore
          /\ (live /\ inWindow /\ otpResp.otp = otpLatest[e].otp) => otpResp.outcome = "success"
          /\ (live /\ inWindow /\ otpResp.otp /= otpLatest[e].otp) =>
                /\ otpResp.outcome = "invalid"
                /\ e \in DOMAIN otpStore
                /\ otpStore[e] = entry
    /\ otpResp.op = "send" =>
          LET e == otpResp.email IN
          /\ (otpResp.status = 500) <=> ~otpResp.success
          /\ otpLatest[e].n = otpResp.n =>
                /\ otpLatest[e].mail = IF otpResp.success THEN "sent" ELSE "failed"
                /\ (otpLatest[e].outs \subseteq {"invalid"}) =>
                      /\ e \in DOMAIN otpStore
                      /\ otpStore[e] = [otp |-> otpLatest[e].otp,
                                        expires |-> otpLatest[e].at + OtpTtlMs]

\* the code of a send whose mail failed was verified successfully after a
\* wrong-code attempt
C13_Witness ==
    /\ otpResp.op = "verify"
    /\ otpResp.outcome = "success"
    /\ otpLatest[otpResp.email].mail = "failed"
    /\ otpResp.prior = {"invalid"}

\* a verify after an expired verify answered "no OTP found"
C13_WitnessAfterExpiry ==
    /\ otpResp.op = "verify"
    /\ otpResp.outcome = "notfound"
    /\ "expired" \in otpResp.prior

(***************************************************************************)
(* C14: once DELETE /api/users/:clerkId has answered 204 for identity U    *)
(* (the only step that removes U from the provider) and no request is in   *)
(* flight any more, there is no User document of U and no like or bookmark *)
(* of U; and when that 204 is the last response, no story and no comment   *)
(* of the local id the deletion ran for is left, whatever requests of U    *)
(* were interleaved with the deletion.                                     *)
(***************************************************************************)
C14_DeleteCleanUnderInterleaving ==
    \A u \in Identities :
        (u \notin DOMAIN clerk /\ \A r \in DOMAIN reqs : reqs[r].pc = "idle") =>
            /\ \A i \in DOMAIN users : users[i].clerkId /= u
            /\ \A i \in DOMAIN stories :
                  u \notin Range(stories[i].likes) /\ u \notin Range(stories[i].bookmarks)
            /\ (resp.kind = "delUser" /\ resp.status = 204 /\ resp.caller = u) =>
                  \A i \in DOMAIN stories :
                      /\ stories[i].authorId /= resp.user._id
                      /\ \A c \in Range(stories[i].comments) : c.userId /= resp.user._id

=============================================================================
